---- MODULE Spec2Model ----
(***************************************************************************)
(* Model of exptlib's two batch runners and of the keyword adapter:        *)
(*   - MultiProcessing.run_parallel / WorkerProcess.process_from_queue     *)
(*     (exptlib/multiprocessing.py): a multiprocessing.Queue guarded by a  *)
(*     Lock and drained by n_processes worker processes;                   *)
(*   - run_pipeline / worker_process / tuple_output (exptlib/pipeline.py): *)
(*     serial loop for n = 1, multiprocessing.Pool.starmap_async otherwise;*)
(*   - eat_kwargs (exptlib/pipeline.py).                                   *)
(* Init picks which of the three a behaviour exercises and its inputs.     *)
(***************************************************************************)
EXTENDS Integers, Sequences, FiniteSets, TLC

(* ------------------------------ bounds --------------------------------- *)
MaxItems == 2
MaxProcs == 2
MaxVal == 3
MaxCores == 2
MaxCalls == 2
MaxTrials == 2
MaxPipelines == 2

(* ------------------------------ state ---------------------------------- *)
VARIABLES
    n_processes,   \* MultiProcessing.n_processes
    mp_args,       \* the *args of run_parallel: item i is the i-th argument
    mpc,           \* position of the process that called run_parallel
    q_buffer,      \* q: items put but not yet written to the pipe by the feeder thread
    q_pipe,        \* q: items in the pipe, what empty() and get() look at
    q_lock,        \* holder of q_lock
    workers,       \* run_parallel's list of started WorkerProcess objects
    joined,        \* how many workers the join loop has joined
    wpc,           \* position of every worker in process_from_queue
    wargs,         \* local variable args of every worker (None as 0)
    ncalls,        \* ncalls[w][i]: times worker w passed item i to func
    lock_users,    \* processes that acquired q_lock so far
    q_users,       \* processes that called a method of q so far
    q_put,         \* the items put on q so far in this call, in order
    q_got,         \* the items taken from q so far in this call, in order
    mp_call,       \* number of the current call of run_parallel on the object
    q_stale,       \* items left in the queues of earlier calls
    verbose,       \* MultiProcessing.verbose
    m_buf,         \* messages: per process, messages put but not yet in the pipe
    m_pipe,        \* messages: the pipe the messaging thread reads
    mt_pc,         \* position of the messaging thread
    printed,       \* the messages printed so far
    eat_pc,        \* position of the caller of eat_kwargs(func)(*args, **kwargs)
    eat_func,      \* signature of func: its parameters in declaration order
    eat_args,      \* positional arguments of the call
    eat_bag,       \* keyword arguments of the call
    fwd_args,      \* positional arguments func was called with
    fwd_kwargs,    \* keyword arguments func was called with
    eat_outcome,   \* "ok" when the call of func bound its arguments, else "TypeError"
    n_cores,       \* Params.n_cores
    p_args,        \* the items the args iterable of run_pipeline yields
    p_workers,     \* Pipeline.workers: the chain of stages
    p_kwargs,      \* Pipeline.kwargs
    p_callback,    \* whether Pipeline.callback is set
    ppc,           \* position of the caller inside Pipeline.__call__ / run_pipeline
    p_n,           \* run_pipeline's parameter n
    p_results,     \* serial path: results; pool path: the MapResult's _value
    p_tasks,       \* pool path: state of the task of every item
    p_left,        \* pool path: the MapResult's _number_left
    p_success,     \* pool path: the MapResult's _success
    p_event,       \* pool path: the MapResult's _event is set
    pool_procs,    \* processes of the Pool that are alive
    p_spawned,     \* pool processes started during the current call
    p_where,       \* kinds of process in which worker_process ran in the current call
    cb_log,        \* argument of every callback invocation of the current call
    history,       \* one record per finished call
    p_ctor,        \* the kwargs the Pipeline was constructed with
    p_callkw,      \* the keywords of every call of the Pipeline so far
    p_gen,         \* whether Pipeline.generator is set, args then being a lazy generator
    g_fail,        \* index of the item at which the generator raises (0: never)
    g_pos,         \* items the args iterable has produced so far in the current call
    p_ran,         \* items worker_process has been started on in the current call
    w_log,         \* arguments of every writer invocation of the current call
    p_cause,       \* what made the current call raise: "generator", "stage" or "none"
    params_overwrite, \* Params.overwrite
    pg_overwrite,  \* PathGenerator.overwrite
    pg_trials,     \* per row of the trial metadata: which input and output paths exist
    pg_pc,         \* "idle", or "iterating" while the generator is being consumed
    pg_pos,        \* rows the generator has gone through in the current invocation
    pg_yielded,    \* rows whose pair the generator yielded in the current invocation
    pg_history,    \* one record per finished invocation
    d_heap,        \* the dict objects: content of the caller's dict and of each fresh dict
    k_ref,         \* per Pipeline object: which dict object its self.kwargs is
    k_log          \* the calls made so far: which Pipeline, with which keywords

q_logs == <<q_put, q_got>>
mp_calls == <<mp_call, q_stale>>
msg_vars == <<verbose, m_buf, m_pipe, mt_pc, printed>>

mp_vars == <<n_processes, mp_args, mpc, q_buffer, q_pipe, q_lock, workers,
             joined, wpc, wargs, ncalls, lock_users, q_users, q_logs, mp_calls,
             msg_vars>>

eat_vars == <<eat_pc, eat_func, eat_args, eat_bag, fwd_args, fwd_kwargs, eat_outcome>>

pipe_vars == <<n_cores, p_args, p_workers, p_kwargs, p_callback, ppc, p_n, p_results,
               p_tasks, p_left, p_success, p_event, pool_procs, p_spawned, p_where,
               cb_log, history, p_ctor, p_callkw, p_gen, g_fail, g_pos, p_ran, w_log,
               p_cause>>

path_vars == <<params_overwrite, pg_overwrite, pg_trials, pg_pc, pg_pos, pg_yielded,
               pg_history>>

alias_vars == <<d_heap, k_ref, k_log>>

vars == <<mp_vars, eat_vars, pipe_vars, path_vars, alias_vars>>

not_mp == <<eat_vars, pipe_vars, path_vars, alias_vars>>
not_eat == <<mp_vars, pipe_vars, path_vars, alias_vars>>
not_pipe == <<mp_vars, eat_vars, path_vars, alias_vars>>
not_path == <<mp_vars, eat_vars, pipe_vars, alias_vars>>
not_alias == <<mp_vars, eat_vars, pipe_vars, path_vars>>

(* --------------------------- MultiProcessing --------------------------- *)
\* process ids: the caller of run_parallel is 0, worker i is i
Main == 0
Free == -1
None == 0

Workers == 1..n_processes
Items == 1..Len(mp_args)

Exited(w) == wpc[w] \in {"terminated", "crashed"}

RECURSIVE SumCalls(_, _)
SumCalls(ws, i) ==
    IF ws = {} THEN 0
    ELSE LET w == CHOOSE x \in ws : TRUE
         IN  ncalls[w][i] + SumCalls(ws \ {w}, i)

TimesProcessed(i) == SumCalls(Workers, i)

\* MultiProcessing(n_processes, verbose) about to run run_parallel(*mp_args)
MPCommon ==
    /\ n_processes \in 1..MaxProcs
    /\ \E N \in 0..MaxItems : mp_args = [i \in 1..N |-> i]
    /\ mpc = "call"
    /\ q_buffer = <<>>
    /\ q_pipe = <<>>
    /\ q_lock = Free
    /\ workers = <<>>
    /\ joined = 0
    /\ wpc = [w \in Workers |-> "unstarted"]
    /\ wargs = [w \in Workers |-> None]
    /\ ncalls = [w \in Workers |-> [i \in Items |-> 0]]
    /\ lock_users = {}
    /\ q_users = {}
    /\ q_put = <<>>
    /\ q_got = <<>>
    /\ mp_call = 1
    /\ q_stale = <<>>
    /\ m_buf = [p \in 0..n_processes |-> <<>>]
    /\ m_pipe = <<>>
    /\ mt_pc = "unstarted"
    /\ printed = <<>>

\* verbose keeps its default
InitMP == MPCommon /\ verbose = FALSE

\* MultiProcessing(n_processes, verbose=True)
InitVerbose == MPCommon /\ verbose = TRUE

OffMP ==
    /\ n_processes = 0
    /\ mp_args = <<>>
    /\ mpc = "off"
    /\ q_buffer = <<>>
    /\ q_pipe = <<>>
    /\ q_lock = Free
    /\ workers = <<>>
    /\ joined = 0
    /\ wpc = <<>>
    /\ wargs = <<>>
    /\ ncalls = <<>>
    /\ lock_users = {}
    /\ q_users = {}
    /\ q_put = <<>>
    /\ q_got = <<>>
    /\ mp_call = 0
    /\ q_stale = <<>>
    /\ verbose = FALSE
    /\ m_buf = <<>>
    /\ m_pipe = <<>>
    /\ mt_pc = "unstarted"
    /\ printed = <<>>

LockAcquireUnguarded(p) ==
    /\ q_lock' = p
    /\ lock_users' = lock_users \cup {p}

\* Lock.acquire(): enabled only while nobody holds the lock.
LockAcquire(p) ==
    /\ q_lock = Free
    /\ q_lock' = p
    /\ lock_users' = lock_users \cup {p}

\* q = Queue(); q_lock = Lock(); if self.verbose: messaging_thread.start();
\* with q_lock:
PopulateBegin ==
    /\ mpc = "call"
    /\ LockAcquire(Main)
    /\ mpc' = "populate"
    /\ mt_pc' = IF verbose THEN "get" ELSE mt_pc
    /\ UNCHANGED not_mp
    /\ UNCHANGED <<q_logs, mp_calls, verbose, m_buf, m_pipe, printed>>
    /\ UNCHANGED <<n_processes, mp_args, q_buffer, q_pipe, workers, joined,
                   wpc, wargs, ncalls, q_users>>

NextArgFromEnd(done) == mp_args[Len(mp_args) - done]

\* for arg in args: the argument the loop reaches after `done` iterations
NextArg(done) == mp_args[done + 1]

\* for arg in args: q.put(arg) -- put appends to the queue's buffer.
PopulatePut ==
    /\ mpc = "populate"
    /\ Len(q_put) < Len(mp_args)
    /\ q_buffer' = Append(q_buffer, NextArg(Len(q_put)))
    /\ q_put' = Append(q_put, NextArg(Len(q_put)))
    /\ q_users' = q_users \cup {Main}
    /\ UNCHANGED not_mp
    /\ UNCHANGED <<q_got, mp_calls, msg_vars>>
    /\ UNCHANGED <<n_processes, mp_args, mpc, q_pipe, q_lock, workers, joined,
                   wpc, wargs, ncalls, lock_users>>

\* leaving the with block of the population
PopulateEnd ==
    /\ mpc = "populate"
    /\ Len(q_put) = Len(mp_args)
    /\ q_lock' = Free
    /\ mpc' = "spawn"
    /\ UNCHANGED not_mp
    /\ UNCHANGED <<q_logs, mp_calls, msg_vars>>
    /\ UNCHANGED <<n_processes, mp_args, q_buffer, q_pipe, workers, joined,
                   wpc, wargs, ncalls, lock_users, q_users>>

FeedIntoFront(pipe, item) == <<item>> \o pipe

\* the feeder thread writes an item behind those already in the pipe
FeedInto(pipe, item) == Append(pipe, item)

\* The queue's feeder thread moves the oldest buffered item into the pipe.
QueueFeed ==
    /\ q_buffer /= <<>>
    /\ q_pipe' = FeedInto(q_pipe, Head(q_buffer))
    /\ q_buffer' = Tail(q_buffer)
    /\ UNCHANGED not_mp
    /\ UNCHANGED <<q_logs, mp_calls, msg_vars>>
    /\ UNCHANGED <<n_processes, mp_args, mpc, q_lock, workers, joined,
                   wpc, wargs, ncalls, lock_users, q_users>>

WorkersToStartForItems == IF Len(mp_args) < n_processes THEN Len(mp_args) ELSE n_processes

\* for p in range(self.n_processes):
WorkersToStart == n_processes

\* wp = WorkerProcess(...); workers.append(wp); wp.start()
SpawnWorker ==
    /\ mpc = "spawn"
    /\ Len(workers) < WorkersToStart
    /\ LET w == Len(workers) + 1
       IN  /\ workers' = Append(workers, w)
           /\ wpc' = [wpc EXCEPT ![w] = "lock"]
    /\ UNCHANGED not_mp
    /\ UNCHANGED <<q_logs, mp_calls, msg_vars>>
    /\ UNCHANGED <<n_processes, mp_args, mpc, q_buffer, q_pipe, q_lock, joined,
                   wargs, ncalls, lock_users, q_users>>

\* the for loop over range(n_processes) is exhausted
SpawnEnd ==
    /\ mpc = "spawn"
    /\ Len(workers) = WorkersToStart
    /\ mpc' = "join"
    /\ UNCHANGED not_mp
    /\ UNCHANGED <<q_logs, mp_calls, msg_vars>>
    /\ UNCHANGED <<n_processes, mp_args, q_buffer, q_pipe, q_lock, workers,
                   joined, wpc, wargs, ncalls, lock_users, q_users>>

JoinReadyAlways(w) == TRUE

FlushedAlways(w) == TRUE

\* a process that put messages exits only after its feeder thread has
\* written them all to the pipe
Flushed(w) == m_buf[w] = <<>>

\* Process.join(): returns once the worker process has exited.
JoinReady(w) == Exited(w) /\ Flushed(w)

\* for wp in workers: wp.join()
JoinWorker ==
    /\ mpc = "join"
    /\ joined < Len(workers)
    /\ JoinReady(workers[joined + 1])
    /\ joined' = joined + 1
    /\ UNCHANGED not_mp
    /\ UNCHANGED <<q_logs, mp_calls, msg_vars>>
    /\ UNCHANGED <<n_processes, mp_args, mpc, q_buffer, q_pipe, q_lock, workers,
                   wpc, wargs, ncalls, lock_users, q_users>>

\* the join loop is over: if self.verbose the stop sentinel comes next, else
\* run_parallel returns
JoinEnd ==
    /\ mpc = "join"
    /\ joined = Len(workers)
    /\ mpc' = IF verbose THEN "sentinel" ELSE "returned"
    /\ UNCHANGED not_mp
    /\ UNCHANGED <<q_logs, mp_calls, msg_vars>>
    /\ UNCHANGED <<n_processes, mp_args, q_buffer, q_pipe, q_lock, workers,
                   joined, wpc, wargs, ncalls, lock_users, q_users>>

\* with self.queue_lock:
WorkerLock(w) ==
    /\ wpc[w] = "lock"
    /\ LockAcquire(w)
    /\ wpc' = [wpc EXCEPT ![w] = "empty"]
    /\ UNCHANGED not_mp
    /\ UNCHANGED <<q_logs, mp_calls, msg_vars>>
    /\ UNCHANGED <<n_processes, mp_args, mpc, q_buffer, q_pipe, workers, joined,
                   wargs, ncalls, q_users>>

NotEmptyAssumed(pipe) == TRUE

\* not self.queue.empty()
NotEmpty(pipe) == pipe /= <<>>

\* if not self.queue.empty(): ... else: break
\* empty() polls the pipe; items still in the feeder's buffer are not seen.
WorkerEmpty(w) ==
    /\ wpc[w] = "empty"
    /\ wpc' = [wpc EXCEPT ![w] = IF NotEmpty(q_pipe) THEN "get" ELSE "break"]
    /\ q_users' = q_users \cup {w}
    /\ UNCHANGED not_mp
    /\ UNCHANGED <<q_logs, mp_calls, msg_vars>>
    /\ UNCHANGED <<n_processes, mp_args, mpc, q_buffer, q_pipe, q_lock, workers,
                   joined, wargs, ncalls, lock_users>>

AfterGetPeek(pipe) == pipe

\* What get() leaves in the pipe.
AfterGet(pipe) == Tail(pipe)

\* args = self.queue.get() -- blocks while the pipe holds nothing
WorkerGet(w) ==
    /\ wpc[w] = "get"
    /\ q_pipe /= <<>>
    /\ wargs' = [wargs EXCEPT ![w] = Head(q_pipe)]
    /\ q_got' = Append(q_got, Head(q_pipe))
    /\ q_pipe' = AfterGet(q_pipe)
    /\ wpc' = [wpc EXCEPT ![w] = "unlock"]
    /\ q_users' = q_users \cup {w}
    /\ UNCHANGED not_mp
    /\ UNCHANGED <<q_put, mp_calls, msg_vars>>
    /\ UNCHANGED <<n_processes, mp_args, mpc, q_buffer, q_lock, workers, joined,
                   ncalls, lock_users>>

AfterWithHeld(w) == w

\* the holder of q_lock once worker w has left its with block
AfterWith(w) == Free

\* leaving the with block with an item: the lock is released
WorkerUnlock(w) ==
    /\ wpc[w] = "unlock"
    /\ q_lock' = AfterWith(w)
    /\ wpc' = [wpc EXCEPT ![w] = "func"]
    /\ UNCHANGED not_mp
    /\ UNCHANGED <<q_logs, mp_calls, msg_vars>>
    /\ UNCHANGED <<n_processes, mp_args, mpc, q_buffer, q_pipe, workers, joined,
                   wargs, ncalls, lock_users, q_users>>

\* break: the with block releases the lock, the loop and the process end
WorkerBreak(w) ==
    /\ wpc[w] = "break"
    /\ q_lock' = AfterWith(w)
    /\ wpc' = [wpc EXCEPT ![w] = "terminated"]
    /\ UNCHANGED not_mp
    /\ UNCHANGED <<q_logs, mp_calls, msg_vars>>
    /\ UNCHANGED <<n_processes, mp_args, mpc, q_buffer, q_pipe, workers, joined,
                   wargs, ncalls, lock_users, q_users>>

\* self.func(*args, **self.kwargs) is entered; in verbose mode the run method
\* reports the item on kwargs['messages']
WorkerCall(w) ==
    /\ wpc[w] = "func"
    /\ ncalls' = [ncalls EXCEPT ![w][wargs[w]] = @ + 1]
    /\ wpc' = [wpc EXCEPT ![w] = "running"]
    /\ m_buf' = IF verbose THEN [m_buf EXCEPT ![w] = Append(@, wargs[w])] ELSE m_buf
    /\ UNCHANGED not_mp
    /\ UNCHANGED <<q_logs, mp_calls, verbose, m_pipe, mt_pc, printed>>
    /\ UNCHANGED <<n_processes, mp_args, mpc, q_buffer, q_pipe, q_lock, workers,
                   joined, wargs, lock_users, q_users>>

AfterReturnStop == "terminated"

\* while True: after func returns the worker is back at the with statement
AfterReturn == "lock"

\* func returns: next iteration of while True
WorkerReturn(w) ==
    /\ wpc[w] = "running"
    /\ wpc' = [wpc EXCEPT ![w] = AfterReturn]
    /\ UNCHANGED not_mp
    /\ UNCHANGED <<q_logs, mp_calls, msg_vars>>
    /\ UNCHANGED <<n_processes, mp_args, mpc, q_buffer, q_pipe, q_lock, workers,
                   joined, wargs, ncalls, lock_users, q_users>>

\* func raises: the exception leaves process_from_queue, the process exits
WorkerFault(w) ==
    /\ wpc[w] = "running"
    /\ wpc' = [wpc EXCEPT ![w] = "crashed"]
    /\ UNCHANGED not_mp
    /\ UNCHANGED <<q_logs, mp_calls, msg_vars>>
    /\ UNCHANGED <<n_processes, mp_args, mpc, q_buffer, q_pipe, q_lock, workers,
                   joined, wargs, ncalls, lock_users, q_users>>


\* messages.put(None)
PutSentinel ==
    /\ mpc = "sentinel"
    /\ m_buf' = [m_buf EXCEPT ![Main] = Append(@, None)]
    /\ mpc' = "join_thread"
    /\ UNCHANGED not_mp
    /\ UNCHANGED <<n_processes, mp_args, q_buffer, q_pipe, q_lock, workers, joined,
                   wpc, wargs, ncalls, lock_users, q_users>>
    /\ UNCHANGED <<q_logs, mp_calls, verbose, m_pipe, mt_pc, printed>>

\* the feeder thread of process p writes its oldest message to the pipe
MsgFeed(p) ==
    /\ m_buf[p] /= <<>>
    /\ m_pipe' = Append(m_pipe, Head(m_buf[p]))
    /\ m_buf' = [m_buf EXCEPT ![p] = Tail(@)]
    /\ UNCHANGED not_mp
    /\ UNCHANGED <<n_processes, mp_args, mpc, q_buffer, q_pipe, q_lock, workers,
                   joined, wpc, wargs, ncalls, lock_users, q_users>>
    /\ UNCHANGED <<q_logs, mp_calls, verbose, mt_pc, printed>>

\* message_thread: message = q.get(); if message is None: break; print(message)
MsgThreadGet ==
    /\ mt_pc = "get"
    /\ m_pipe /= <<>>
    /\ m_pipe' = Tail(m_pipe)
    /\ IF Head(m_pipe) = None
       THEN mt_pc' = "terminated" /\ UNCHANGED printed
       ELSE printed' = Append(printed, Head(m_pipe)) /\ UNCHANGED mt_pc
    /\ UNCHANGED not_mp
    /\ UNCHANGED <<n_processes, mp_args, mpc, q_buffer, q_pipe, q_lock, workers,
                   joined, wpc, wargs, ncalls, lock_users, q_users>>
    /\ UNCHANGED <<q_logs, mp_calls, verbose, m_buf>>

\* messaging_thread.join(), then run_parallel returns
JoinThread ==
    /\ mpc = "join_thread"
    /\ mt_pc = "terminated"
    /\ mpc' = "returned"
    /\ UNCHANGED not_mp
    /\ UNCHANGED <<n_processes, mp_args, q_buffer, q_pipe, q_lock, workers, joined,
                   wpc, wargs, ncalls, lock_users, q_users>>
    /\ UNCHANGED <<q_logs, mp_calls, msg_vars>>

NewQueueKept(q) == q

\* q = Queue()
NewQueue(q) == <<>>

\* the client calls run_parallel(*mp_args) on the same object again: queue,
\* lock, worker list and messaging thread are created anew
RunParallelAgain ==
    /\ mpc = "returned"
    /\ mp_call < MaxCalls
    /\ mp_call' = mp_call + 1
    /\ q_stale' = q_stale \o q_pipe \o q_buffer
    /\ q_pipe' = NewQueue(q_pipe)
    /\ q_buffer' = NewQueue(q_buffer)
    /\ q_lock' = Free
    /\ mpc' = "call"
    /\ workers' = <<>>
    /\ joined' = 0
    /\ wpc' = [w \in Workers |-> "unstarted"]
    /\ wargs' = [w \in Workers |-> None]
    /\ ncalls' = [w \in Workers |-> [i \in Items |-> 0]]
    /\ lock_users' = {}
    /\ q_users' = {}
    /\ q_put' = <<>>
    /\ q_got' = <<>>
    /\ m_pipe' = <<>>
    /\ mt_pc' = "unstarted"
    /\ printed' = <<>>
    /\ UNCHANGED not_mp
    /\ UNCHANGED <<n_processes, mp_args, verbose, m_buf>>

(* ------------------------------ eat_kwargs ----------------------------- *)
EmptyBag == [k \in {} |-> 0]

Param(name, kind, dflt) == [name |-> name, kind |-> kind, dflt |-> dflt]

\* signatures the adapter is applied to
F_ab == <<Param("a", "POSITIONAL_OR_KEYWORD", FALSE), Param("b", "POSITIONAL_OR_KEYWORD", FALSE)>>
F_a_kw == <<Param("a", "POSITIONAL_OR_KEYWORD", FALSE), Param("kw", "VAR_KEYWORD", FALSE)>>
F_varargs == <<Param("args", "VAR_POSITIONAL", FALSE)>>
F_posonly == <<Param("a", "POSITIONAL_ONLY", FALSE)>>
F_none == <<>>
F_kwonly == <<Param("a", "POSITIONAL_OR_KEYWORD", FALSE), Param("c", "KEYWORD_ONLY", TRUE)>>

Signatures == {F_ab, F_a_kw, F_varargs, F_posonly, F_none, F_kwonly}
Keys == {"a", "b", "c", "args"}
Bags == UNION {[K -> 1..MaxVal] : K \in SUBSET Keys}
ArgTuples == {<<>>, <<7>>, <<7, 8>>}

ParamNames(sig) == {sig[i].name : i \in 1..Len(sig)}

IsVarKeywordNever(param) == FALSE

\* if param.kind == param.VAR_KEYWORD
IsVarKeyword(param) == param.kind = "VAR_KEYWORD"

\* The loop over sig.parameters.items(): wrap is FALSE when eat_kwargs
\* returns func itself, otherwise kw lists the parameter names.
RECURSIVE ScanParams(_, _, _)
ScanParams(sig, i, kw) ==
    IF i > Len(sig) THEN [wrap |-> TRUE, kw |-> kw]
    ELSE IF IsVarKeyword(sig[i]) THEN [wrap |-> FALSE, kw |-> <<>>]
    ELSE ScanParams(sig, i + 1, Append(kw, sig[i].name))

\* for key in kw: if key in kwargs: keep_kw[key] = kwargs[key]
RECURSIVE KeepKw(_, _, _, _)
KeepKw(kw, i, kwargs, keep_kw) ==
    IF i > Len(kw) THEN keep_kw
    ELSE IF kw[i] \in DOMAIN kwargs
         THEN KeepKw(kw, i + 1, kwargs, (kw[i] :> kwargs[kw[i]]) @@ keep_kw)
         ELSE KeepKw(kw, i + 1, kwargs, keep_kw)

\* The keywords eat_kwargs(func) passes on to func.
EatKwargs(sig, kwargs) ==
    LET scan == ScanParams(sig, 1, <<>>)
    IN  IF scan.wrap THEN KeepKw(scan.kw, 1, kwargs, EmptyBag) ELSE kwargs

\* Python's binding of func(*args, **kwargs) to the signature.
Positional(sig) == {i \in 1..Len(sig) : sig[i].kind \in {"POSITIONAL_ONLY", "POSITIONAL_OR_KEYWORD"}}
HasKind(sig, kind) == \E i \in 1..Len(sig) : sig[i].kind = kind
ByKeyword(sig, k) ==
    {i \in 1..Len(sig) : sig[i].name = k /\ sig[i].kind \in {"POSITIONAL_OR_KEYWORD", "KEYWORD_ONLY"}}

PyCall(sig, args, kwargs) ==
    LET tooMany == Len(args) > Cardinality(Positional(sig)) /\ ~HasKind(sig, "VAR_POSITIONAL")
        unexpected == \E k \in DOMAIN kwargs :
                         ByKeyword(sig, k) = {} /\ ~HasKind(sig, "VAR_KEYWORD")
        multiple == \E k \in DOMAIN kwargs : \E i \in ByKeyword(sig, k) :
                         i \in Positional(sig) /\ i <= Len(args)
        missing == \E i \in 1..Len(sig) :
                         /\ ~sig[i].dflt
                         /\ \/ sig[i].kind = "POSITIONAL_ONLY" /\ i > Len(args)
                            \/ sig[i].kind = "POSITIONAL_OR_KEYWORD" /\ i > Len(args)
                                  /\ sig[i].name \notin DOMAIN kwargs
                            \/ sig[i].kind = "KEYWORD_ONLY" /\ sig[i].name \notin DOMAIN kwargs
    IN  IF tooMany \/ unexpected \/ multiple \/ missing THEN "TypeError" ELSE "ok"

InitEat ==
    /\ eat_pc = "call"
    /\ eat_func \in Signatures
    /\ eat_args \in ArgTuples
    /\ eat_bag \in Bags
    /\ fwd_args = <<>>
    /\ fwd_kwargs = EmptyBag
    /\ eat_outcome = "none"

OffEat ==
    /\ eat_pc = "off"
    /\ eat_func = <<>>
    /\ eat_args = <<>>
    /\ eat_bag = EmptyBag
    /\ fwd_args = <<>>
    /\ fwd_kwargs = EmptyBag
    /\ eat_outcome = "none"

\* eat_kwargs(func)(*args, **kwargs)
EatCall ==
    /\ eat_pc = "call"
    /\ fwd_args' = eat_args
    /\ fwd_kwargs' = EatKwargs(eat_func, eat_bag)
    /\ eat_outcome' = PyCall(eat_func, eat_args, EatKwargs(eat_func, eat_bag))
    /\ eat_pc' = "done"
    /\ UNCHANGED <<eat_func, eat_args, eat_bag>>
    /\ UNCHANGED not_eat


(* ------------------------- worker_process chain ------------------------ *)
\* Python values: an int, a tuple of values, a callable, None, or a raised
\* exception.
PyInt(x) == [exc |-> FALSE, tup |-> FALSE, n |-> x, v |-> <<>>, f |-> ""]
PyTuple(xs) == [exc |-> FALSE, tup |-> TRUE, n |-> 0, v |-> xs, f |-> ""]
PyFunc(name) == [exc |-> FALSE, tup |-> FALSE, n |-> 0, v |-> <<>>, f |-> name]
PyNone == PyFunc("None")
Raised == [exc |-> TRUE, tup |-> FALSE, n |-> 0, v |-> <<>>, f |-> ""]

IsInt(x) == ~x.exc /\ ~x.tup /\ x.f = ""

AsTupleNever(x) == x

\* if not isinstance(x, tuple): x = (x,)
AsTuple(x) == IF x.tup THEN x ELSE PyTuple(<<x>>)

BadVal == 3

\* callables handed to the pipeline: signature and body
Stage(sig, body) == [sig |-> sig, body |-> body]
X == Param("x", "POSITIONAL_OR_KEYWORD", FALSE)
Y == Param("y", "POSITIONAL_OR_KEYWORD", FALSE)
Double == Stage(<<X>>, "double")
Pair == Stage(<<X>>, "pair")
Add == Stage(<<X, Y>>, "add")
Scale == Stage(<<X, Param("a", "POSITIONAL_OR_KEYWORD", TRUE)>>, "scale")
FailOn == Stage(<<X>>, "fail_on")
\* a writer that records its arguments: def record(output, *result)
Record == Stage(<<Param("output", "POSITIONAL_OR_KEYWORD", FALSE),
                  Param("result", "VAR_POSITIONAL", FALSE)>>, "record")
\* IOMapper.dummy(*args, **kwargs)
Dummy == Stage(<<Param("args", "VAR_POSITIONAL", FALSE),
                 Param("kwargs", "VAR_KEYWORD", FALSE)>>, "dummy")
\* analysis_pipeline(input_path, reader, worker, writer, output_path, **kwargs)
AnalysisPipeline ==
    Stage(<<Param("input_path", "POSITIONAL_OR_KEYWORD", FALSE),
            Param("reader", "POSITIONAL_OR_KEYWORD", FALSE),
            Param("worker", "POSITIONAL_OR_KEYWORD", FALSE),
            Param("writer", "POSITIONAL_OR_KEYWORD", FALSE),
            Param("output_path", "POSITIONAL_OR_KEYWORD", FALSE),
            Param("kwargs", "VAR_KEYWORD", FALSE)>>, "analysis")

StageOf(name) ==
    CASE name = "double" -> Double
      [] name = "pair" -> Pair
      [] name = "add" -> Add
      [] name = "scale" -> Scale
      [] name = "fail_on" -> FailOn
      [] name = "record" -> Record
      [] name = "dummy" -> Dummy
      [] name = "analysis" -> AnalysisPipeline

\* a tuple repeated k times (tuple * int)
RECURSIVE Repeat(_, _)
Repeat(xs, k) == IF k <= 0 THEN <<>> ELSE xs \o Repeat(xs, k - 1)

\* x * k
Times(x, k) ==
    IF IsInt(x) THEN PyInt(x.n * k)
    ELSE IF x.tup THEN PyTuple(Repeat(x.v, k))
    ELSE Raised

\* x + y
Plus(x, y) ==
    IF IsInt(x) /\ IsInt(y) THEN PyInt(x.n + y.n)
    ELSE IF x.tup /\ y.tup THEN PyTuple(x.v \o y.v)
    ELSE Raised

WriterArgsResultFirst(output_path, result) == result.v \o <<output_path>>

\* the positional arguments of eat_kwargs(writer)(output_path, *result, **kwargs)
WriterArgs(output_path, result) == <<output_path>> \o result.v

RECURSIVE Body(_, _, _)
RECURSIVE TupleOutput(_, _, _)

\* analysis_pipeline: reader, then worker, then writer
Analysis(a, kw) ==
    LET args == TupleOutput(StageOf(a[2].f), PyTuple(<<a[1]>>), kw)
        result == IF args.exc THEN Raised ELSE TupleOutput(StageOf(a[3].f), args, kw)
        writer == StageOf(a[4].f)
        wkw == EatKwargs(writer.sig, kw)
    IN  IF result.exc THEN [ret |-> Raised, wrote |-> <<>>]
        ELSE IF PyCall(writer.sig, WriterArgs(a[5], result), wkw) = "TypeError"
        THEN [ret |-> Raised, wrote |-> <<>>]
        ELSE [ret |-> Body(writer.body, WriterArgs(a[5], result), wkw),
              wrote |-> <<WriterArgs(a[5], result)>>]

\* What the body of a callable returns for bound arguments.
Body(body, a, kw) ==
    CASE body = "double" -> Times(a[1], 2)
      [] body = "pair" -> IF IsInt(a[1]) THEN PyTuple(<<a[1], PyInt(a[1].n + 1)>>) ELSE Raised
      [] body = "add" -> Plus(a[1], a[2])
      [] body = "scale" -> Times(a[1], IF "a" \in DOMAIN kw THEN kw["a"] ELSE 1)
      [] body = "fail_on" -> IF a[1] = PyInt(BadVal) THEN Raised ELSE a[1]
      [] body = "record" -> PyNone
      [] body = "dummy" -> PyTuple(a)
      [] body = "analysis" -> Analysis(a, kw).ret

\* tuple_output(func)(*args, **kwargs)
TupleOutput(func, args, kwargs) ==
    LET kw == EatKwargs(func.sig, kwargs)
        output == IF PyCall(func.sig, args.v, kw) = "TypeError" THEN Raised
                  ELSE Body(func.body, args.v, kw)
    IN  IF output.exc THEN Raised ELSE AsTuple(output)

\* for worker in workers: args = tuple_output(worker)(*args, **kwargs)
RECURSIVE Chain(_, _, _, _)
Chain(ws, i, args, kwargs) ==
    IF i > Len(ws) THEN args
    ELSE LET out == TupleOutput(ws[i], args, kwargs)
         IN  IF out.exc THEN Raised ELSE Chain(ws, i + 1, out, kwargs)

\* worker_process(workers, args, kwargs)
WorkerProcess(ws, args, kwargs) == Chain(ws, 1, AsTuple(args), kwargs)

(* ----------------------- Pipeline / run_pipeline ----------------------- *)
ItemVals == {PyInt(1), PyTuple(<<PyInt(BadVal)>>)}
ItemSeqs == UNION {[1..N -> ItemVals] : N \in 0..MaxItems}
Chains == {<<>>, <<Pair, Add>>, <<FailOn, Scale>>}
KwargBags == {("a" :> 2) @@ ("c" :> 3)}
\* the keywords of a call: a plain Pipeline is called with or without
\* keywords, the analysis pipeline without
CallKwargs ==
    IF p_gen THEN {EmptyBag} ELSE {EmptyBag, ("a" :> 3 + Len(p_callkw)) @@ ("b" :> 1)}
DefaultCores == 4

\* the values the client sets pipeline_params.n_cores to: serial, or a pool
CoreChoices == {1, MaxCores}

NItems == Len(p_args)

\* the (input, output) pairs a user generator yields: bare values or 1-tuples
ScalarPair(i) == <<PyInt(i), PyInt(10 * i)>>
TuplePair(i) == <<PyTuple(<<PyInt(i)>>), PyTuple(<<PyInt(10 * i)>>)>>
PairSeqs == UNION {{[i \in 1..N |-> ScalarPair(i)], [i \in 1..N |-> TuplePair(i)]} :
                      N \in 0..MaxItems}
AnalysisWorkers == {"double", "fail_on"}

IOMapperItemOffByOne(pairs, i, worker) ==
    PyTuple(<<pairs[i][1], PyFunc("dummy"), PyFunc(worker), PyFunc("record"),
              pairs[IF i < Len(pairs) THEN i + 1 ELSE 1][2]>>)

\* IOMapper.__call__: yield input_path, self.reader, self.worker, self.writer, output_path
\* (reader is None, hence IOMapper.dummy; the writer records its arguments)
IOMapperItem(pairs, i, worker) ==
    PyTuple(<<pairs[i][1], PyFunc("dummy"), PyFunc(worker), PyFunc("record"), pairs[i][2]>>)

IOMapper(pairs, worker) == [i \in 1..Len(pairs) |-> IOMapperItem(pairs, i, worker)]

\* the writer invocations made while the chain runs on one item
RECURSIVE Effects(_, _, _, _)
Effects(ws, i, args, kwargs) ==
    IF i > Len(ws) THEN <<>>
    ELSE LET out == TupleOutput(ws[i], args, kwargs)
             kw == EatKwargs(ws[i].sig, kwargs)
             here == IF ws[i].body = "analysis" /\ PyCall(ws[i].sig, args.v, kw) = "ok"
                     THEN Analysis(args.v, kw).wrote ELSE <<>>
         IN  IF out.exc THEN here ELSE here \o Effects(ws, i + 1, out, kwargs)

WriterCalls(ws, args, kwargs) == Effects(ws, 1, AsTuple(args), kwargs)

PipeCommon ==
    /\ n_cores = DefaultCores
    /\ p_kwargs = p_ctor
    /\ p_callkw = <<>>
    /\ ppc = "idle"
    /\ p_n = 0
    /\ p_results = <<>>
    /\ p_tasks = <<>>
    /\ p_left = 0
    /\ p_success = TRUE
    /\ p_event = FALSE
    /\ pool_procs = 0
    /\ p_spawned = 0
    /\ p_where = {}
    /\ cb_log = <<>>
    /\ history = <<>>
    /\ g_pos = 0
    /\ p_ran = {}
    /\ w_log = <<>>
    /\ p_cause = "none"

\* Pipeline(*workers, callback=..., kwargs=...) called with the items as *args
InitPipe ==
    /\ p_args \in ItemSeqs
    /\ p_workers \in Chains
    /\ p_ctor \in KwargBags
    /\ p_callback \in BOOLEAN
    /\ p_gen = FALSE
    /\ g_fail = 0
    /\ PipeCommon

\* create_analysis_pipeline(generator=..., worker=..., writer=...)
InitAnalysis ==
    /\ \E pairs \in PairSeqs : \E worker \in AnalysisWorkers :
          /\ p_args = IOMapper(pairs, worker)
          /\ g_fail \in 0..Len(pairs)
    /\ p_workers = <<AnalysisPipeline>>
    /\ p_ctor = EmptyBag
    /\ p_callback = FALSE
    /\ p_gen = TRUE
    /\ PipeCommon

OffPipe ==
    /\ n_cores = DefaultCores
    /\ p_args = <<>>
    /\ p_workers = <<>>
    /\ p_ctor = EmptyBag
    /\ p_kwargs = EmptyBag
    /\ p_callkw = <<>>
    /\ p_callback = FALSE
    /\ p_gen = FALSE
    /\ g_fail = 0
    /\ ppc = "off"
    /\ p_n = 0
    /\ p_results = <<>>
    /\ p_tasks = <<>>
    /\ p_left = 0
    /\ p_success = TRUE
    /\ p_event = FALSE
    /\ pool_procs = 0
    /\ p_spawned = 0
    /\ p_where = {}
    /\ cb_log = <<>>
    /\ history = <<>>
    /\ g_pos = 0
    /\ p_ran = {}
    /\ w_log = <<>>
    /\ p_cause = "none"

\* what no action but the constructor sets
p_const == <<p_args, p_workers, p_callback, p_ctor, p_gen, g_fail>>

\* pipeline_params.n_cores = n, set by the client between calls
SetNCores(n) ==
    /\ ppc = "idle"
    /\ Len(history) < MaxCalls
    /\ n_cores /= n
    /\ n_cores' = n
    /\ UNCHANGED <<p_const, p_kwargs, p_callkw, ppc, p_n, p_results, p_tasks,
                   p_left, p_success, p_event, pool_procs, p_spawned, p_where, cb_log,
                   history, g_pos, p_ran, w_log, p_cause>>
    /\ UNCHANGED not_pipe

NCoresAtConstruction == DefaultCores

\* self.params.n_cores, evaluated when __call__ runs
NCoresAtCall == n_cores

\* Params.parallelize(): return not cls.n_cores == 1
Parallelize(n) == ~(n = 1)

SerialPathNever(n) == FALSE

\* if n == 1:
SerialPath(n) == n = 1

UpdateReplace(bag, kw) == kw

\* self.kwargs.update(kwargs)
Update(bag, kw) == kw @@ bag

\* Pipeline.__call__(*args, **kwargs): the keywords are merged into self.kwargs,
\* the generator (if any) is called, which only creates the lazy generator,
\* and self.run(self.params.n_cores, args, ...) enters run_pipeline
PipelineCall(kw) ==
    /\ ppc = "idle"
    /\ Len(history) < MaxCalls
    /\ p_kwargs' = Update(p_kwargs, kw)
    /\ p_callkw' = Append(p_callkw, kw)
    /\ p_n' = NCoresAtCall
    /\ ppc' = IF SerialPath(NCoresAtCall) THEN "serial" ELSE "pool"
    /\ g_pos' = IF p_gen THEN 0 ELSE NItems
    /\ p_results' = <<>>
    /\ p_tasks' = <<>>
    /\ p_left' = 0
    /\ p_success' = TRUE
    /\ p_event' = FALSE
    /\ p_spawned' = 0
    /\ p_where' = {}
    /\ cb_log' = <<>>
    /\ p_ran' = {}
    /\ w_log' = <<>>
    /\ p_cause' = "none"
    /\ UNCHANGED <<p_const, n_cores, pool_procs, history>>
    /\ UNCHANGED not_pipe

StageFailedSwallowed(result) == FALSE

\* an exception raised by a stage leaves worker_process
StageFailed(result) == result.exc

NextItemReversed(done) == NItems - done

\* the for loop takes the items in the order of the iterable
NextItem(done) == done + 1

\* for arg in args: result = worker_process(workers, arg, kwargs); results.append(result)
\* One iteration: the next item is taken from args (a generator produces it
\* only now, or raises), the chain runs on it, the result is appended.
SerialIter ==
    /\ ppc = "serial"
    /\ Len(p_results) < NItems
    /\ LET i == NextItem(Len(p_results))
           result == WorkerProcess(p_workers, p_args[i], p_kwargs)
       IN  IF p_gen /\ g_fail = g_pos + 1
           THEN /\ ppc' = "raise"
                /\ p_cause' = "generator"
                /\ UNCHANGED <<p_results, g_pos, p_ran, w_log, p_where>>
           ELSE /\ g_pos' = IF p_gen THEN g_pos + 1 ELSE g_pos
                /\ p_ran' = p_ran \cup {i}
                /\ p_where' = p_where \cup {"main"}
                /\ w_log' = w_log \o WriterCalls(p_workers, p_args[i], p_kwargs)
                /\ IF StageFailed(result)
                   THEN ppc' = "raise" /\ p_cause' = "stage" /\ UNCHANGED p_results
                   ELSE p_results' = Append(p_results, result) /\ UNCHANGED <<ppc, p_cause>>
    /\ UNCHANGED <<p_const, n_cores, p_kwargs, p_callkw, p_n, p_tasks, p_left,
                   p_success, p_event, pool_procs, p_spawned, cb_log, history>>
    /\ UNCHANGED not_pipe

\* if callback: callback(results)
SerialCallback ==
    /\ ppc = "serial"
    /\ Len(p_results) = NItems
    /\ cb_log' = IF p_callback THEN Append(cb_log, p_results) ELSE cb_log
    /\ ppc' = "return"
    /\ UNCHANGED <<p_const, n_cores, p_kwargs, p_callkw, p_n, p_results, p_tasks,
                   p_left, p_success, p_event, pool_procs, p_spawned, p_where, history,
                   g_pos, p_ran, w_log, p_cause>>
    /\ UNCHANGED not_pipe

\* Pool(processes=n)
PoolSize(n) == n

\* with Pool(processes=n) as pool:
PoolStart ==
    /\ ppc = "pool"
    /\ pool_procs' = PoolSize(p_n)
    /\ p_spawned' = p_spawned + PoolSize(p_n)
    /\ ppc' = "submit"
    /\ UNCHANGED <<p_const, n_cores, p_kwargs, p_callkw, p_n, p_results, p_tasks,
                   p_left, p_success, p_event, p_where, cb_log, history,
                   g_pos, p_ran, w_log, p_cause>>
    /\ UNCHANGED not_pipe

\* pool.starmap_async(worker_process, (... for arg in args), callback=callback):
\* the iterable is consumed into a list first; if the generator raises, the
\* exception leaves the with block, which terminates the pool. Otherwise one
\* task per item is queued (chunks of one item, as for up to 4 * n items); a
\* MapResult over no item is ready at once and never calls the callback.
PoolSubmit ==
    /\ ppc = "submit"
    /\ IF p_gen /\ g_fail /= 0
       THEN /\ g_pos' = g_fail - 1
            /\ ppc' = "raise"
            /\ p_cause' = "generator"
            /\ pool_procs' = 0
            /\ UNCHANGED <<p_tasks, p_results, p_left, p_event>>
       ELSE /\ g_pos' = NItems
            /\ p_tasks' = [i \in 1..NItems |-> "pending"]
            /\ p_results' = [i \in 1..NItems |-> Raised]
            /\ p_left' = NItems
            /\ p_event' = (NItems = 0)
            /\ ppc' = "get"
            /\ UNCHANGED <<pool_procs, p_cause>>
    /\ UNCHANGED <<p_const, n_cores, p_kwargs, p_callkw, p_n, p_success,
                   p_spawned, p_where, cb_log, history, p_ran, w_log>>
    /\ UNCHANGED not_pipe

\* a free pool process takes the next task from the pool's task queue
PoolTaskStart(i) ==
    /\ ppc = "get"
    /\ p_tasks[i] = "pending"
    /\ \A j \in 1..(i - 1) : p_tasks[j] /= "pending"
    /\ Cardinality({j \in 1..NItems : p_tasks[j] = "running"}) < pool_procs
    /\ p_tasks' = [p_tasks EXCEPT ![i] = "running"]
    /\ p_where' = p_where \cup {"pool"}
    /\ p_ran' = p_ran \cup {i}
    /\ UNCHANGED <<p_const, n_cores, p_kwargs, p_callkw, ppc, p_n, p_results,
                   p_left, p_success, p_event, pool_procs, p_spawned, cb_log, history,
                   g_pos, w_log, p_cause>>
    /\ UNCHANGED not_pipe

\* the pool process finishes worker_process for item i (its writer, if any,
\* has run) and sends the result back
PoolTaskDone(i) ==
    /\ ppc = "get"
    /\ p_tasks[i] = "running"
    /\ p_tasks' = [p_tasks EXCEPT ![i] = "sent"]
    /\ w_log' = w_log \o WriterCalls(p_workers, p_args[i], p_kwargs)
    /\ UNCHANGED <<p_const, n_cores, p_kwargs, p_callkw, ppc, p_n, p_results,
                   p_left, p_success, p_event, pool_procs, p_spawned, p_where, cb_log,
                   history, g_pos, p_ran, p_cause>>
    /\ UNCHANGED not_pipe

CallbackDuePerItem(left) == TRUE

\* starmap_async's callback is due when no task of the batch is left
CallbackDue(left) == left = 0

\* the pool's result handler thread stores the result of item i (MapResult._set)
PoolHandleResult(i) ==
    /\ ppc = "get"
    /\ p_tasks[i] = "sent"
    /\ p_tasks' = [p_tasks EXCEPT ![i] = "done"]
    /\ p_left' = p_left - 1
    /\ LET result == WorkerProcess(p_workers, p_args[i], p_kwargs)
           value == IF p_success /\ ~StageFailed(result)
                    THEN [p_results EXCEPT ![i] = result] ELSE p_results
       IN  /\ p_results' = value
           /\ p_success' = (p_success /\ ~StageFailed(result))
           /\ cb_log' = IF p_success' /\ p_callback /\ CallbackDue(p_left')
                        THEN Append(cb_log, value) ELSE cb_log
    /\ p_event' = (p_left' = 0)
    /\ UNCHANGED <<p_const, n_cores, p_kwargs, p_callkw, ppc, p_n,
                   pool_procs, p_spawned, p_where, history, g_pos, p_ran, w_log, p_cause>>
    /\ UNCHANGED not_pipe

\* result.get() returns or re-raises once the MapResult is ready; leaving the
\* with block terminates the pool
PoolGet ==
    /\ ppc = "get"
    /\ p_event
    /\ ppc' = IF p_success THEN "return" ELSE "raise"
    /\ p_cause' = IF p_success THEN "none" ELSE "stage"
    /\ pool_procs' = 0
    /\ UNCHANGED <<p_const, n_cores, p_kwargs, p_callkw, p_n, p_results, p_tasks,
                   p_left, p_success, p_event, p_spawned, p_where, cb_log, history,
                   g_pos, p_ran, w_log>>
    /\ UNCHANGED not_pipe

\* run_pipeline and Pipeline.__call__ return or raise to the client
FinishCall ==
    /\ ppc \in {"return", "raise"}
    /\ history' = Append(history, [n |-> p_n, outcome |-> ppc, cb |-> cb_log,
                                   spawned |-> p_spawned, where |-> p_where,
                                   bag |-> p_kwargs, ran |-> p_ran, wlog |-> w_log,
                                   cause |-> p_cause, yielded |-> g_pos,
                                   cores |-> n_cores])
    /\ ppc' = "idle"
    /\ UNCHANGED <<p_const, n_cores, p_kwargs, p_callkw, p_n, p_results, p_tasks,
                   p_left, p_success, p_event, pool_procs, p_spawned, p_where, cb_log,
                   g_pos, p_ran, w_log, p_cause>>
    /\ UNCHANGED not_pipe

(* ----------------------------- PathGenerator --------------------------- *)
\* a path is modelled by whether it exists; a trial has a tuple of input paths
\* and a tuple of output paths (a single path is wrapped into a 1-tuple)
InputPaths == {<<TRUE>>, <<FALSE>>, <<TRUE, FALSE>>, <<TRUE, TRUE>>}
OutputPaths == {<<TRUE>>, <<FALSE>>, <<TRUE, FALSE>>, <<TRUE, TRUE>>}
Trials == [ins : InputPaths, outs : OutputPaths]

TrialSeqs == UNION {[1..n -> Trials] : n \in 0..MaxTrials}

\* overwrite = False, in Params and in PathGenerator.__init__
DefaultOverwrite == FALSE

\* for path in input_path: if not path.exists(): ... return False
MissingInput(ins) == \E k \in DOMAIN ins : ~ins[k]

MissingOutputAll(outs) == \A k \in DOMAIN outs : ~outs[k]

\* for path in output_path: ... if not path.exists(): return True
MissingOutput(outs) == \E k \in DOMAIN outs : ~outs[k]

\* return self.overwrite
OverwritePolicy(own) == own

\* PathGenerator.validate_paths(input_path, output_path)
ValidatePaths(trial, own) ==
    IF MissingInput(trial.ins) THEN FALSE
    ELSE IF MissingOutput(trial.outs) THEN TRUE
    ELSE OverwritePolicy(own)

\* PathGenerator(experiment, overwrite=...) over the rows of the trial metadata
InitPaths ==
    /\ params_overwrite = DefaultOverwrite
    /\ pg_overwrite \in BOOLEAN
    /\ pg_trials \in TrialSeqs
    /\ pg_pc = "idle"
    /\ pg_pos = 0
    /\ pg_yielded = <<>>
    /\ pg_history = <<>>

OffPath ==
    /\ params_overwrite = DefaultOverwrite
    /\ pg_overwrite = DefaultOverwrite
    /\ pg_trials = <<>>
    /\ pg_pc = "off"
    /\ pg_pos = 0
    /\ pg_yielded = <<>>
    /\ pg_history = <<>>

\* pipeline_params.overwrite = b, set by the client between invocations
SetOverwrite(b) ==
    /\ pg_pc = "idle"
    /\ Len(pg_history) < MaxCalls
    /\ params_overwrite /= b
    /\ params_overwrite' = b
    /\ UNCHANGED <<pg_overwrite, pg_trials, pg_pc, pg_pos, pg_yielded, pg_history>>
    /\ UNCHANGED not_path

\* an invocation of the Pipeline calls the generator: iteration starts at the
\* first row
PathGenCall ==
    /\ pg_pc = "idle"
    /\ Len(pg_history) < MaxCalls
    /\ pg_pc' = "iterating"
    /\ pg_pos' = 0
    /\ pg_yielded' = <<>>
    /\ UNCHANGED <<params_overwrite, pg_overwrite, pg_trials, pg_history>>
    /\ UNCHANGED not_path

\* for idx, trial_info in self.trial_metadata.iterrows():
\*     if self.validate_paths(input_path, output_path): yield ...
PathGenNext ==
    /\ pg_pc = "iterating"
    /\ pg_pos < Len(pg_trials)
    /\ pg_pos' = pg_pos + 1
    /\ pg_yielded' = IF ValidatePaths(pg_trials[pg_pos + 1], pg_overwrite)
                     THEN Append(pg_yielded, pg_pos + 1)
                     ELSE pg_yielded
    /\ UNCHANGED <<params_overwrite, pg_overwrite, pg_trials, pg_pc, pg_history>>
    /\ UNCHANGED not_path

\* the rows are exhausted: the generator is finished
PathGenEnd ==
    /\ pg_pc = "iterating"
    /\ pg_pos = Len(pg_trials)
    /\ pg_pc' = "idle"
    /\ pg_history' = Append(pg_history, [params |-> params_overwrite,
                                         own |-> pg_overwrite,
                                         yielded |-> pg_yielded])
    /\ UNCHANGED <<params_overwrite, pg_overwrite, pg_trials, pg_pos, pg_yielded>>
    /\ UNCHANGED not_path

(* ------------------------ Pipeline.kwargs objects ---------------------- *)
\* dict objects are numbered: 0 is the dict the caller holds, p is the dict
\* created while Pipeline object p is constructed
CallerDict == 0
Unbuilt == -1
Pipelines == 1..MaxPipelines

\* the keywords a Pipeline object is called with
AliasKwargs == {EmptyBag, ("a" :> 3) @@ ("b" :> 1), ("c" :> 5)}

\* kwargs or {}: a dict that is not empty is kept as the object it is
KwargsOrNew(given, fresh) == IF d_heap[given] /= EmptyBag THEN given ELSE fresh

\* the caller holds a dict d; no Pipeline object exists yet
InitAlias ==
    /\ \E d \in KwargBags \cup {EmptyBag} :
          d_heap = [r \in {CallerDict} \cup Pipelines |->
                       IF r = CallerDict THEN d ELSE EmptyBag]
    /\ k_ref = [p \in Pipelines |-> Unbuilt]
    /\ k_log = <<>>

OffAlias ==
    /\ d_heap = <<>>
    /\ k_ref = <<>>
    /\ k_log = <<>>

\* Pipeline(*workers, kwargs=d): self.kwargs = kwargs or {}
ConstructFromDict(p) ==
    /\ k_ref[p] = Unbuilt
    /\ k_ref' = [k_ref EXCEPT ![p] = KwargsOrNew(CallerDict, p)]
    /\ UNCHANGED <<d_heap, k_log>>
    /\ UNCHANGED not_alias

\* Pipeline(*workers): kwargs is None, self.kwargs is a new empty dict
ConstructPlain(p) ==
    /\ k_ref[p] = Unbuilt
    /\ k_ref' = [k_ref EXCEPT ![p] = p]
    /\ UNCHANGED <<d_heap, k_log>>
    /\ UNCHANGED not_alias

\* create_analysis_pipeline(generator=g, **d): the ** parameter is a new dict
\* with the entries of d, handed to Pipeline(..., kwargs=kwargs)
ConstructAnalysis(p) ==
    /\ k_ref[p] = Unbuilt
    /\ d_heap' = [d_heap EXCEPT ![p] = d_heap[CallerDict]]
    /\ k_ref' = [k_ref EXCEPT ![p] = p]
    /\ UNCHANGED k_log
    /\ UNCHANGED not_alias

\* Pipeline object p is called with keywords kw: self.kwargs.update(kwargs)
\* changes the dict object in place; run_pipeline only reads it
KeywordCall(p, kw) ==
    /\ k_ref[p] /= Unbuilt
    /\ Len(k_log) < MaxCalls
    /\ d_heap' = [d_heap EXCEPT ![k_ref[p]] = Update(@, kw)]
    /\ k_log' = Append(k_log, [p |-> p, kw |-> kw])
    /\ UNCHANGED k_ref
    /\ UNCHANGED not_alias

(* ------------------------------- claims -------------------------------- *)
NoCrash == \A w \in Workers : wpc[w] /= "crashed"
InCritical(w) == wpc[w] \in {"empty", "get", "unlock", "break"}
ExpectedResults(bag) == [i \in 1..NItems |-> WorkerProcess(p_workers, p_args[i], bag)]
Finished == {history[k] : k \in DOMAIN history}

\* C1: in run_parallel no item is passed to the target function more than
\* once, summed over all workers, and no two workers hold the same item.
C1_NoItemTwice ==
    /\ \A i \in Items : TimesProcessed(i) <= 1
    /\ \A v, w \in Workers : (v /= w /\ wargs[v] /= None) => wargs[v] /= wargs[w]

\* two workers shared the items of a finished run, each item once
C1_Witness ==
    /\ mpc = "returned"
    /\ Len(mp_args) >= 2
    /\ \A i \in Items : TimesProcessed(i) = 1
    /\ \E v, w \in Workers : v /= w /\ ncalls[v][1] = 1 /\ ncalls[w][2] = 1

\* C2: with 1 <= k <= N and no crash, when run_parallel has returned every
\* item put on the queue has been passed to the target function exactly once.
C2_AllProcessedOnce ==
    (mpc = "returned" /\ NoCrash /\ n_processes <= Len(mp_args))
        => \A i \in Items : TimesProcessed(i) = 1

\* C3: the emptiness check and the removal are one critical section: at most
\* one worker is inside it, it holds the lock, and a worker about to remove
\* finds an item in the queue.
C3_CheckAndRemoveAtomic ==
    /\ Cardinality({w \in Workers : InCritical(w)}) <= 1
    /\ \A w \in Workers : InCritical(w) => q_lock = w
    /\ \A w \in Workers : wpc[w] = "get" => q_pipe /= <<>>

\* a worker is about to remove the last item while another waits for the lock
C3_Witness ==
    \E v, w \in Workers :
        v /= w /\ wpc[v] = "get" /\ Len(q_pipe) = 1 /\ q_buffer = <<>> /\ wpc[w] = "lock"

\* C4: when run_parallel has returned, every worker it spawned has exited.
C4_ReturnAfterWorkersExit ==
    mpc = "returned" => (Len(workers) = n_processes /\ \A w \in Workers : Exited(w))

\* run_parallel returned after two workers processed items
C4_Witness ==
    /\ mpc = "returned"
    /\ n_processes >= 2
    /\ \A w \in Workers : \E i \in Items : ncalls[w][i] = 1

\* C5: for an empty item sequence a call returns with no queue operation, no
\* worker or pool process spawned and no callback invocation.
C5_EmptyRunDoesNothing ==
    /\ \A h \in Finished :
          NItems = 0 => (h.spawned = 0 /\ h.cb = <<>> /\ h.where = {})
    /\ (mpc = "returned" /\ mp_args = <<>>)
          => (workers = <<>> /\ q_users = {} /\ lock_users = {})

\* C6 as stated: with worker count 1 both run_pipeline and run_parallel run
\* inline, spawning no process and acquiring no lock.
C6_SerialPathBoth ==
    /\ \A h \in Finished : h.n = 1 => (h.spawned = 0 /\ h.where \subseteq {"main"})
    /\ (mpc = "returned" /\ n_processes = 1) => (workers = <<>> /\ lock_users = {})

\* C6 amended: run_pipeline with n = 1 runs the chain inline in the calling
\* process and starts no pool process; run_parallel with n_processes = 1
\* starts exactly one worker process, and caller and worker take the lock.
C6_SerialPathPipelineOnly ==
    /\ \A h \in Finished : h.n = 1 => (h.spawned = 0 /\ h.where \subseteq {"main"})
    /\ (ppc \notin {"off", "idle"} /\ p_n = 1)
          => (pool_procs = 0 /\ p_spawned = 0 /\ p_where \subseteq {"main"})
    /\ (mpc = "returned" /\ n_processes = 1)
          => (workers = <<1>> /\ lock_users = {Main, 1})

\* a serial call over two items finished, all work done in the caller
C6_Witness ==
    /\ NItems = 2
    /\ \E h \in Finished : h.n = 1 /\ h.outcome = "return" /\ h.where = {"main"}

\* C7: for the same items, chain and keyword bag, the callback of a call
\* with n = 1 sees what the callback of a call with n > 1 sees.
C7_SerialEqualsParallel ==
    \A g, h \in Finished : (g.n = 1 /\ h.n > 1 /\ g.bag = h.bag) => g.cb = h.cb

\* C8 as stated: a call with a callback invokes it exactly once, with one
\* result per item in item order.
C8_CallbackOncePerCall ==
    \A h \in Finished :
        (p_callback /\ h.outcome = "return") => h.cb = <<ExpectedResults(h.bag)>>

\* C8 amended: a call that returns invokes the callback exactly once with the
\* results in item order, except that the pool mode does not invoke it for an
\* empty item sequence; the callback never runs before every item is done.
C8_CallbackAfterBatch ==
    /\ \A h \in Finished :
          /\ (p_callback /\ h.outcome = "return" /\ (NItems > 0 \/ h.n = 1))
                => h.cb = <<ExpectedResults(h.bag)>>
          /\ (p_callback /\ h.outcome = "return" /\ NItems = 0 /\ h.n > 1) => h.cb = <<>>
          /\ (~p_callback \/ h.outcome = "raise") => h.cb = <<>>
    /\ cb_log /= <<>> =>
          /\ Len(cb_log) = 1
          /\ Len(p_results) = NItems
          /\ \A i \in DOMAIN p_tasks : p_tasks[i] = "done"

\* a pool call over two items handed both results to the callback at once
C8_Witness ==
    /\ NItems = 2
    /\ \E h \in Finished : h.n > 1 /\ h.outcome = "return" /\ Len(h.cb) = 1 /\ Len(h.cb[1]) = 2

\* C9: the call made through eat_kwargs(f) passes the positional arguments
\* unchanged and exactly the entries of the bag whose key is a parameter name
\* of f, or the whole bag when f has a catch-all keyword parameter.
C9_ForwardsDeclaredKeywords ==
    eat_pc = "done" =>
        /\ fwd_args = eat_args
        /\ IF HasKind(eat_func, "VAR_KEYWORD")
           THEN fwd_kwargs = eat_bag
           ELSE /\ DOMAIN fwd_kwargs = DOMAIN eat_bag \cap ParamNames(eat_func)
                /\ \A k \in DOMAIN fwd_kwargs : fwd_kwargs[k] = eat_bag[k]

\* f(a, b) called with the bag {a:1, b:2, c:3} received {a:1, b:2}
C9_Witness ==
    /\ eat_pc = "done"
    /\ eat_func = F_ab
    /\ eat_bag = ("a" :> 1) @@ ("b" :> 2) @@ ("c" :> 3)
    /\ fwd_kwargs = ("a" :> 1) @@ ("b" :> 2)

\* no parameter of sig can still be given by keyword after args are bound
ZeroEligible(sig, args) ==
    \A i \in 1..Len(sig) :
        \/ sig[i].kind \in {"POSITIONAL_ONLY", "VAR_POSITIONAL"}
        \/ sig[i].kind = "POSITIONAL_OR_KEYWORD" /\ i <= Len(args)

\* C10: a callable with no eligible keyword parameter, called through
\* eat_kwargs with positional arguments it accepts, receives no keyword and
\* the call does not fail, whatever the bag.
C10_ZeroEligibleNoError ==
    (eat_pc = "done" /\ ZeroEligible(eat_func, eat_args)
                     /\ PyCall(eat_func, eat_args, EmptyBag) = "ok")
        => (fwd_kwargs = EmptyBag /\ eat_outcome = "ok")

\* the value x as the code must hand it on: a tuple, x itself if it is one
Wrapped(x) == IF x.tup THEN x.v ELSE <<x>>
\* what stage w returns for the positional arguments xs and the call's bag
StageOut(w, xs) == Body(w.body, xs, EatKwargs(w.sig, p_kwargs))

\* C11: worker_process applies the stages in order, the tuple-wrapped output
\* of a stage being the positional arguments of the next, every stage with
\* the same bag; its result is a tuple, the wrapped item for an empty chain.
C11_ChainInOrder ==
    ppc = "serial" =>
        \A i \in 1..Len(p_results) :
            LET r == p_results[i]
                a == Wrapped(p_args[i])
            IN  /\ r.tup /\ ~r.exc
                /\ Len(p_workers) = 0 => r.v = a
                /\ Len(p_workers) = 1 => r.v = Wrapped(StageOut(p_workers[1], a))
                /\ Len(p_workers) = 2 =>
                      r.v = Wrapped(StageOut(p_workers[2], Wrapped(StageOut(p_workers[1], a))))
                /\ Len(p_workers) <= 2

\* pair then add ran on the bare item 1: (1, 2) was unpacked into add, giving (3,)
C11_Witness ==
    /\ ppc = "serial"
    /\ p_workers = <<Pair, Add>>
    /\ Len(p_results) >= 1
    /\ p_args[1] = PyInt(1)
    /\ p_results[1] = PyTuple(<<PyInt(3)>>)

\* the bag after the first j calls, told from the calls' keywords alone: a key
\* has the value of the last call that gave it, else the constructor's value
Accumulated(j) ==
    LET given(k) == {i \in 1..j : k \in DOMAIN p_callkw[i]}
        last(k) == CHOOSE i \in given(k) : \A m \in given(k) : m <= i
        keys == DOMAIN p_ctor \cup UNION {DOMAIN p_callkw[i] : i \in 1..j}
    IN  [k \in keys |-> IF given(k) = {} THEN p_ctor[k] ELSE p_callkw[last(k)][k]]

\* C12: the keywords of a Pipeline call are merged into the pipeline's stored
\* bag and stay there: the j-th call runs its workers with the constructor's
\* keywords overridden by those of calls 1..j, a later call winning
C12_KwargsAccumulate ==
    /\ ppc /= "off" => p_kwargs = Accumulated(Len(p_callkw))
    /\ \A j \in DOMAIN history : history[j].bag = Accumulated(j)
    /\ (ppc = "return" /\ cb_log /= <<>>)
          => cb_log = <<ExpectedResults(Accumulated(Len(p_callkw)))>>

C12_Witness ==
    /\ Len(history) = 2
    /\ p_ctor = ("a" :> 2) @@ ("c" :> 3)
    /\ p_callkw = <<("a" :> 3) @@ ("b" :> 1), ("a" :> 4) @@ ("b" :> 1)>>
    /\ history[2].bag = ("a" :> 4) @@ ("b" :> 1) @@ ("c" :> 3)
    /\ p_workers = <<FailOn, Scale>>
    /\ p_args = <<PyInt(1)>>
    /\ history[1].cb = <<<<PyTuple(<<PyInt(3)>>)>>>>
    /\ history[2].cb = <<<<PyTuple(<<PyInt(4)>>)>>>>

\* the generator of the current call still has items to yield
StillYielding == p_gen /\ g_fail = 0 /\ g_pos < NItems

\* C13: in every Pipeline call the generator is drained before any worker or
\* pool process is started and before the chain runs on any item
C13_DrainedBeforeWork ==
    (ppc \in {"serial", "pool", "submit", "get"} /\ StillYielding)
        => (pool_procs = 0 /\ p_ran = {})

\* C14: a call aborted by the generator raising at its j-th item has started no
\* worker or pool process, run the chain on no item and not invoked the callback
C14_GeneratorFailureBeforeWork ==
    \A h \in Finished :
        h.cause = "generator"
            => (h.outcome = "raise" /\ h.spawned = 0 /\ h.ran = {} /\ h.cb = <<>>)

Crashed == {w \in Workers : wpc[w] = "crashed"}

\* C15: a fault of the target function in one worker of run_parallel ends only
\* that worker: it does not hold the lock, run_parallel returns after every
\* worker exited, and the other workers have passed every remaining item to
\* the target function, the faulted item having been passed exactly once
C15_FaultEndsOnlyThatWorker ==
    /\ \A w \in Crashed : q_lock /= w
    /\ (mpc = "returned" /\ Cardinality(Crashed) = 1 /\ n_processes >= 2)
          => /\ \A w \in Workers : Exited(w)
             /\ q_lock = Free
             /\ \A i \in Items : TimesProcessed(i) = 1

\* the items on which some stage of the chain fails under the bag
Failing(bag) == {i \in 1..NItems : WorkerProcess(p_workers, p_args[i], bag).exc}
Min(S) == CHOOSE i \in S : \A j \in S : i <= j

\* C16 as stated: a stage failing on one item goes unobserved: the call
\* returns normally and the chain has still run on every item
C16_StageFailureUnobserved ==
    \A h \in Finished :
        (Failing(h.bag) /= {} /\ h.cause /= "generator")
            => (h.outcome = "return" /\ h.ran = 1..NItems)

\* C16 amended: a stage failing on an item makes the call raise, without the
\* callback: with n = 1 at once, the items after the first failing one not
\* being run; with n > 1 after the chain has run on every item
C16_StageFailureRaises ==
    \A h \in Finished : \A failing \in {Failing(h.bag)} :
        LET first == Min(failing)
        IN  /\ (h.n = 1 /\ failing /= {} /\ g_fail \notin 1..first)
                  => /\ h.outcome = "raise" /\ h.cause = "stage" /\ h.cb = <<>>
                     /\ h.ran = 1..first
            /\ (h.n > 1 /\ failing /= {} /\ g_fail = 0)
                  => /\ h.outcome = "raise" /\ h.cause = "stage" /\ h.cb = <<>>
                     /\ h.ran = 1..NItems
            /\ h.cause = "stage" => failing /= {}
            /\ h.outcome = "raise" => h.cause /= "none"

C16_Witness ==
    /\ Len(history) = 2
    /\ NItems = 2
    /\ Failing(p_kwargs) = {1}
    /\ history[1].n = 1 /\ history[1].outcome = "raise" /\ history[1].ran = {1}
    /\ history[2].n > 1 /\ history[2].outcome = "raise" /\ history[2].ran = {1, 2}

\* the i-th pair the user generator yields, the analysis worker, the values the
\* worker returns for the pair's input passed as one argument, and a 1-tuple
\* taken apart
PairOf(i) == IF p_args[i].v[1].tup THEN TuplePair(i) ELSE ScalarPair(i)
WorkerOf == StageOf(p_args[1].v[3].f)
ResultOf(i) == Wrapped(Body(WorkerOf.body, <<PairOf(i)[1]>>, EmptyBag))
WorkerFails(i) == Body(WorkerOf.body, <<PairOf(i)[1]>>, EmptyBag).exc
Unpacked(x) == IF x.tup /\ Len(x.v) = 1 THEN x.v[1] ELSE x
Elements(xs) == {xs[k] : k \in DOMAIN xs}
DoublingRun(h) == p_gen /\ NItems = 2 /\ WorkerOf = Double /\ h.outcome = "return"

\* C17 as stated: the writer is invoked once per pair with the result of in_i
\* and the same pair's out_i, the elements of the pairs being unpacked: pairs
\* ((1,),(10,)), ((2,),(20,)) and a doubling worker record {(2,10), (4,20)}
C17_PairsUnpacked ==
    \A h \in Finished :
        DoublingRun(h)
            => /\ Len(h.wlog) = NItems
               /\ \A i \in 1..NItems : \E k \in DOMAIN h.wlog :
                     /\ Len(h.wlog[k]) = 2
                     /\ Elements(h.wlog[k]) = {PyInt(2 * Unpacked(PairOf(i)[1]).n),
                                               Unpacked(PairOf(i)[2])}

\* C17 amended: the writer is invoked once for every pair whose chain ran
\* without failing (for every pair in a call that returns), with that pair's
\* out_i and the worker's result for in_i, in_i and out_i being passed as they
\* were generated: scalar pairs (1,10), (2,20) record {(2,10), (4,20)}, the
\* 1-tuple pairs record out_i = (10,) with the doubled tuple (1,1), for every
\* worker count and interleaving
C17_WriterOncePerPair ==
    \A h \in Finished :
        p_gen
            => /\ \A i \in 1..NItems :
                     Cardinality({k \in DOMAIN h.wlog : PairOf(i)[2] \in Elements(h.wlog[k])})
                         = IF i \in h.ran /\ ~WorkerFails(i) THEN 1 ELSE 0
               /\ h.outcome = "return" => h.ran = 1..NItems
               /\ \A k \in DOMAIN h.wlog : \E i \in 1..NItems :
                     /\ Elements(h.wlog[k]) = {PairOf(i)[2]} \cup Elements(ResultOf(i))
                     /\ Len(h.wlog[k]) = 1 + Len(ResultOf(i))
               /\ (DoublingRun(h) /\ PairOf(1) = ScalarPair(1))
                     => {Elements(h.wlog[k]) : k \in DOMAIN h.wlog}
                            = {{PyInt(2), PyInt(10)}, {PyInt(4), PyInt(20)}}
               /\ (DoublingRun(h) /\ PairOf(1) = TuplePair(1))
                     => {Elements(h.wlog[k]) : k \in DOMAIN h.wlog}
                            = {{PyInt(1), PyTuple(<<PyInt(10)>>)},
                               {PyInt(2), PyTuple(<<PyInt(20)>>)}}

\* a pool run over two 1-tuple pairs whose second pair was written first
C17_Witness ==
    /\ Len(history) = 1
    /\ DoublingRun(history[1])
    /\ history[1].n > 1
    /\ PairOf(1) = TuplePair(1)
    /\ Len(history[1].wlog) = 2
    /\ PyTuple(<<PyInt(20)>>) \in Elements(history[1].wlog[1])

\* C18 as stated: the writer is invoked with the chain's result first,
\* followed by the item's output arguments unpacked
C18_ResultFirst ==
    \A h \in Finished :
        p_gen => \A k \in DOMAIN h.wlog : \E i \in 1..NItems :
                    h.wlog[k] = ResultOf(i) \o Wrapped(PairOf(i)[2])

\* C18 amended: the writer is invoked with the item's output path first, as
\* one argument, followed by the worker's result unpacked
C18_OutputPathFirst ==
    \A h \in Finished :
        p_gen => \A k \in DOMAIN h.wlog : \E i \in 1..NItems :
                    h.wlog[k] = <<PairOf(i)[2]>> \o ResultOf(i)

C18_Witness ==
    /\ Len(history) = 1
    /\ p_gen
    /\ history[1].wlog = <<<<PyTuple(<<PyInt(10)>>), PyInt(1), PyInt(1)>>>>

Idle(w) == \A i \in Items : ncalls[w][i] = 0

\* C20: run_parallel starts exactly n_processes workers whatever the number
\* of items, the workers in excess of the items finding the queue empty and
\* terminating without a call of the target function; run_pipeline with n > 1
\* uses a pool of exactly n processes
C20_ExactlyNWorkers ==
    /\ mpc \in {"join", "returned"} => Len(workers) = n_processes
    /\ mpc = "returned"
          => /\ Cardinality({w \in Workers : Idle(w)}) >= n_processes - Len(mp_args)
             /\ \A w \in Workers : Idle(w) => wpc[w] = "terminated"
    /\ ppc \in {"submit", "get"} => pool_procs = p_n
    /\ \A h \in Finished : h.n > 1 => h.spawned = h.n

\* two workers were started for one item; the second terminated idle
C20_Witness ==
    /\ mpc = "returned"
    /\ n_processes = 2
    /\ Len(mp_args) = 1
    /\ ncalls[1][1] = 1
    /\ Idle(2)
    /\ wpc[2] = "terminated"

QueueLength == Len(q_buffer) + Len(q_pipe)

\* C21: the queue of a call is populated once, item after item in argument
\* order, and completely before the first worker is started; from the first
\* worker start until the call returns the queue never grows.
C21_PopulatedOnceBeforeWorkers ==
    /\ [](/\ Len(q_put) <= Len(mp_args)
          /\ q_put = SubSeq(mp_args, 1, Len(q_put))
          /\ mpc = "populate" => workers = <<>>
          /\ workers /= <<>> => q_put = mp_args)
    /\ [][workers /= <<>> /\ workers' /= <<>>
             => /\ q_put' = q_put
                /\ Len(q_buffer') + Len(q_pipe') <= QueueLength]_vars

\* the first worker is started on a queue that holds both arguments in order
C21_Witness ==
    /\ Len(workers) = 1
    /\ q_put = <<1, 2>>
    /\ q_buffer \o q_pipe /= <<>>
    /\ q_got = <<>>
    /\ wpc[1] = "lock"

\* C22: a worker never holds the queue lock while its target function runs,
\* so another worker can take an item while the first one executes.
C22_LockFreeWhileRunning ==
    \A w \in Workers :
        wpc[w] \in {"func", "running"} => q_lock /= w

\* worker 2 holds the lock and has taken an item while worker 1 is running
C22_Witness ==
    /\ n_processes = 2
    /\ wpc[1] = "running"
    /\ wpc[2] = "unlock"
    /\ q_lock = 2
    /\ wargs[1] /= wargs[2]

\* C26: items leave the shared queue in the order in which they were put.
C26_FirstInFirstOut ==
    /\ Len(q_got) <= Len(q_put)
    /\ q_got = SubSeq(q_put, 1, Len(q_got))

\* two items were put and both were taken, by different workers
C26_Witness ==
    /\ q_put = <<1, 2>>
    /\ q_got = <<1, 2>>
    /\ n_processes = 2
    /\ wargs[1] = 2
    /\ wargs[2] = 1

\* C27: unless func faults, a worker leaves its loop only through the step in
\* which it holds the lock and sees the queue empty; when func returns the
\* worker goes back to taking the lock.
C27_ExitOnlyOnEmpty ==
    [][\A w \in Workers :
          /\ (wpc[w] /= "terminated" /\ wpc'[w] = "terminated")
                => wpc[w] = "break"
          /\ (wpc[w] /= "break" /\ wpc'[w] = "break")
                => wpc[w] = "empty" /\ q_lock = w /\ q_pipe = <<>>
          /\ (wpc[w] = "running" /\ wpc'[w] \notin {"running", "crashed"})
                => wpc'[w] = "lock"
          /\ (wpc[w] /= "crashed" /\ wpc'[w] = "crashed")
                => wpc[w] = "running"]_vars

\* a worker processed both items, came back and ended on the empty queue
C27_Witness ==
    \E w \in Workers :
        /\ wpc[w] = "terminated"
        /\ Len(mp_args) = 2
        /\ \A i \in Items : ncalls[w][i] = 1

RECURSIVE Count(_, _)
Count(seq, x) ==
    IF seq = <<>> THEN 0
    ELSE (IF Head(seq) = x THEN 1 ELSE 0) + Count(Tail(seq), x)

\* C29: every call of run_parallel works on a queue of its own: what the
\* workers of a call take is what that call put, also when an earlier call
\* on the same object left items unprocessed.
C29_QueuePerCall ==
    /\ q_put = q_got \o q_pipe \o q_buffer
    /\ mpc = "call" => q_pipe = <<>> /\ q_buffer = <<>> /\ q_lock = Free
    /\ \A i \in Items : TimesProcessed(i) <= Count(q_put, i)

\* the first call left an item behind; the second call processed exactly its
\* own two items
C29_Witness ==
    /\ mp_call = 2
    /\ q_stale /= <<>>
    /\ mpc = "returned"
    /\ q_got = <<1, 2>>
    /\ \A i \in Items : TimesProcessed(i) = 1

SentinelPut == Count(m_buf[Main] \o m_pipe, None) > 0 \/ mt_pc = "terminated"

\* C30: in verbose mode the messaging thread runs before any worker is
\* started, the stop sentinel is put only after every worker was joined, the
\* thread has printed every message of every worker when it takes the
\* sentinel, and it has ended when run_parallel returns.
C30_VerboseOrder ==
    verbose =>
        /\ workers /= <<>> => mt_pc /= "unstarted"
        /\ SentinelPut
              => /\ joined = n_processes
                 /\ \A w \in Workers : Exited(w)
        /\ mt_pc = "terminated"
              => /\ \A i \in Items : Count(printed, i) = TimesProcessed(i)
                 /\ m_pipe = <<>>
                 /\ \A p \in 0..n_processes : m_buf[p] = <<>>
        /\ mpc = "returned" => mt_pc = "terminated"

\* two workers reported one item each, the later one first; the thread printed
\* both, took the sentinel, and run_parallel returned
C30_Witness ==
    /\ verbose
    /\ mpc = "returned"
    /\ mt_pc = "terminated"
    /\ n_processes = 2
    /\ q_got = <<1, 2>>
    /\ printed = <<2, 1>>

\* C28: under fair scheduling, with a func that returns or raises, every call
\* of run_parallel returns: every worker gets the lock, ends on the empty queue
\* or by a fault, and all joins complete.
C28_RunParallelTerminates ==
    <>(/\ mpc = "returned"
       /\ joined = n_processes
       /\ \A w \in Workers : Exited(w) /\ w \in lock_users
       /\ q_lock = Free)

\* run_parallel returned although one worker crashed and the other ended on
\* the empty queue
C28_Witness ==
    /\ mpc = "returned"
    /\ n_processes = 2
    /\ wpc[1] = "crashed"
    /\ wpc[2] = "terminated"
    /\ q_lock = Free

\* C23: every call of the Pipeline dispatches with the worker count that
\* Params holds when the call starts, whatever it was at construction, and
\* runs serially exactly when Params.parallelize() is false for that count.
C23_CoresReadPerCall ==
    /\ ppc \notin {"off", "idle"}
          => /\ p_n = n_cores
             /\ ppc \in {"serial", "pool"} => (ppc = "serial" <=> ~Parallelize(n_cores))
             /\ p_spawned > 0 => (Parallelize(n_cores) /\ p_spawned = n_cores)
    /\ \A h \in Finished :
          /\ h.n = h.cores
          /\ h.spawned = 0 <=> ~Parallelize(h.cores)
          /\ Parallelize(h.cores) => (h.spawned = h.cores /\ "main" \notin h.where)

\* the count was changed before each of two calls of the same Pipeline: the
\* first ran serially, the second with a pool of MaxCores processes
C23_Witness ==
    /\ Len(history) = 2
    /\ history[1].cores = 1
    /\ history[1].spawned = 0
    /\ history[1].where = {"main"}
    /\ history[2].cores = MaxCores
    /\ history[2].spawned = MaxCores
    /\ history[2].where = {"pool"}

Invocations == {pg_history[k] : k \in DOMAIN pg_history}
Rows == DOMAIN pg_trials
AllExist(paths) == \A k \in DOMAIN paths : paths[k]
Yielded(h, r) == \E k \in DOMAIN h.yielded : h.yielded[k] = r
Increasing(seq) == \A j, k \in DOMAIN seq : j < k => seq[j] < seq[k]

\* C24: Params.overwrite, as it stands when an invocation starts, is that
\* invocation's overwrite policy: a trial whose inputs and outputs all exist is
\* generated when the flag is true and skipped when it is false.
C24_ParamsOverwriteIsPolicy ==
    \A h \in Invocations : \A r \in Rows :
        (AllExist(pg_trials[r].ins) /\ AllExist(pg_trials[r].outs))
            => (Yielded(h, r) <=> h.params)

\* C25: the generator yields the pair of a trial exactly when every input
\* exists and an output is missing or its own overwrite is set, in the order
\* of the rows.
C25_YieldsValidTrials ==
    /\ \A h \in Invocations :
          /\ \A r \in Rows :
                Yielded(h, r) <=> /\ AllExist(pg_trials[r].ins)
                                  /\ \/ ~AllExist(pg_trials[r].outs)
                                     \/ h.own
          /\ Increasing(h.yielded)
    /\ Increasing(pg_yielded)
    /\ \A k \in DOMAIN pg_yielded : pg_yielded[k] <= pg_pos

\* without overwrite, of two trials with all inputs the one with a missing
\* output was yielded and the one with all outputs was skipped
C25_Witness ==
    /\ Len(pg_trials) = 2
    /\ pg_trials[1] = [ins |-> <<TRUE, TRUE>>, outs |-> <<TRUE, TRUE>>]
    /\ pg_trials[2] = [ins |-> <<TRUE, TRUE>>, outs |-> <<TRUE, FALSE>>]
    /\ \E h \in Invocations : ~h.own /\ h.yielded = <<2>>

BagOf(p) == d_heap[k_ref[p]]
Called == k_log'[Len(k_log')].p

\* C31: a call of one Pipeline object with keywords leaves the keyword bag of
\* every other Pipeline object and the dict the caller passed as constructor
\* kwargs as they were, also for two objects built from the same dict.
C31_BagsIndependent ==
    [][k_log' /= k_log
          => /\ d_heap'[CallerDict] = d_heap[CallerDict]
             /\ \A q \in Pipelines \ {Called} :
                   k_ref[q] /= Unbuilt => d_heap'[k_ref[q]] = BagOf(q)]_vars

(* ------------------------------ behaviours ----------------------------- *)
Init ==
    \/ InitMP /\ OffEat /\ OffPipe /\ OffPath /\ OffAlias
    \/ OffMP /\ InitEat /\ OffPipe /\ OffPath /\ OffAlias
    \/ OffMP /\ OffEat /\ InitPipe /\ OffPath /\ OffAlias
    \/ OffMP /\ OffEat /\ InitAnalysis /\ OffPath /\ OffAlias

Next ==
    \/ PopulateBegin
    \/ PopulatePut
    \/ PopulateEnd
    \/ QueueFeed
    \/ SpawnWorker
    \/ SpawnEnd
    \/ JoinWorker
    \/ JoinEnd
    \/ \E w \in Workers : WorkerLock(w)
    \/ \E w \in Workers : WorkerEmpty(w)
    \/ \E w \in Workers : WorkerGet(w)
    \/ \E w \in Workers : WorkerUnlock(w)
    \/ \E w \in Workers : WorkerBreak(w)
    \/ \E w \in Workers : WorkerCall(w)
    \/ \E w \in Workers : WorkerReturn(w)
    \/ \E w \in Workers : WorkerFault(w)
    \/ EatCall
    \/ \E n \in CoreChoices : SetNCores(n)
    \/ \E kw \in CallKwargs : PipelineCall(kw)
    \/ SerialIter
    \/ SerialCallback
    \/ PoolStart
    \/ PoolSubmit
    \/ \E i \in 1..NItems : PoolTaskStart(i)
    \/ \E i \in 1..NItems : PoolTaskDone(i)
    \/ \E i \in 1..NItems : PoolHandleResult(i)
    \/ PoolGet
    \/ FinishCall

Spec == Init /\ [][Next]_vars

\* run_parallel alone, called repeatedly on the same object
InitParallel == InitMP /\ OffEat /\ OffPipe /\ OffPath /\ OffAlias

NextParallel ==
    \/ PopulateBegin
    \/ PopulatePut
    \/ PopulateEnd
    \/ QueueFeed
    \/ SpawnWorker
    \/ SpawnEnd
    \/ JoinWorker
    \/ JoinEnd
    \/ \E w \in Workers : WorkerLock(w)
    \/ \E w \in Workers : WorkerEmpty(w)
    \/ \E w \in Workers : WorkerGet(w)
    \/ \E w \in Workers : WorkerUnlock(w)
    \/ \E w \in Workers : WorkerBreak(w)
    \/ \E w \in Workers : WorkerCall(w)
    \/ \E w \in Workers : WorkerReturn(w)
    \/ \E w \in Workers : WorkerFault(w)
    \/ RunParallelAgain

SpecParallel == InitParallel /\ [][NextParallel]_vars

\* one verbose call of run_parallel
InitVerboseRun == InitVerbose /\ OffEat /\ OffPipe /\ OffPath /\ OffAlias

NextVerbose ==
    \/ PopulateBegin
    \/ PopulatePut
    \/ PopulateEnd
    \/ QueueFeed
    \/ SpawnWorker
    \/ SpawnEnd
    \/ JoinWorker
    \/ JoinEnd
    \/ \E w \in Workers : WorkerLock(w)
    \/ \E w \in Workers : WorkerEmpty(w)
    \/ \E w \in Workers : WorkerGet(w)
    \/ \E w \in Workers : WorkerUnlock(w)
    \/ \E w \in Workers : WorkerBreak(w)
    \/ \E w \in Workers : WorkerCall(w)
    \/ \E w \in Workers : WorkerReturn(w)
    \/ \E w \in Workers : WorkerFault(w)
    \/ PutSentinel
    \/ \E p \in 0..n_processes : MsgFeed(p)
    \/ MsgThreadGet
    \/ JoinThread

SpecVerbose == InitVerboseRun /\ [][NextVerbose]_vars

\* one call of run_parallel under fair scheduling; func ends by returning or
\* by raising
\* verbose runs are taken below the largest combination of workers and items
InitFair ==
    /\ MPCommon
    /\ verbose \in BOOLEAN
    /\ verbose => Len(mp_args) + n_processes < MaxItems + MaxProcs
    /\ OffEat
    /\ OffPipe
    /\ OffPath
    /\ OffAlias

MainStep ==
    \/ PopulateBegin
    \/ PopulatePut
    \/ PopulateEnd
    \/ SpawnWorker
    \/ SpawnEnd
    \/ JoinWorker
    \/ JoinEnd
    \/ PutSentinel
    \/ JoinThread

WorkerStep(w) ==
    \/ WorkerLock(w)
    \/ WorkerEmpty(w)
    \/ WorkerGet(w)
    \/ WorkerUnlock(w)
    \/ WorkerBreak(w)
    \/ WorkerCall(w)
    \/ WorkerReturn(w)
    \/ WorkerFault(w)

NextFair ==
    \/ MainStep
    \/ QueueFeed
    \/ \E w \in Workers : WorkerStep(w)
    \/ \E p \in 0..n_processes : MsgFeed(p)
    \/ MsgThreadGet

\* some thread or process that can take a step is eventually scheduled; this
\* is implied by fairness towards each of them separately
Fairness == WF_vars(NextFair)

SpecFair == InitFair /\ [][NextFair]_vars /\ Fairness

\* the PathGenerator alone, consumed in successive invocations
InitGenerator == OffMP /\ OffEat /\ OffPipe /\ InitPaths /\ OffAlias

NextGenerator ==
    \/ \E b \in BOOLEAN : SetOverwrite(b)
    \/ PathGenCall
    \/ PathGenNext
    \/ PathGenEnd

SpecGenerator == InitGenerator /\ [][NextGenerator]_vars

\* Pipeline objects built from one caller's dict and called with keywords
InitObjects == OffMP /\ OffEat /\ OffPipe /\ OffPath /\ InitAlias

NextObjects ==
    \/ \E p \in Pipelines : ConstructFromDict(p)
    \/ \E p \in Pipelines : ConstructPlain(p)
    \/ \E p \in Pipelines : ConstructAnalysis(p)
    \/ \E p \in Pipelines : \E kw \in AliasKwargs : KeywordCall(p, kw)

SpecObjects == InitObjects /\ [][NextObjects]_vars

====
